---- MODULE Spec2Model ----
(***************************************************************************)
(* MiniMaxCodingAgent (src/main.py): the session protocol of the coding    *)
(* agent over its durable artifacts: claude-progress.txt, the feature      *)
(* ledger feature_list.json, the workspace directory and the git history.  *)
(* Each process is a sequence of invocations of main(); one invocation     *)
(* runs one session, statement by statement.                               *)
(***************************************************************************)
EXTENDS Integers, Sequences, FiniteSets, TLC

VARIABLES
    nproc,          \* number of processes invoking main() on the project
    progress_file,  \* claude-progress.txt: [exists, lines]; every line ends in "\n"
    feature_file,   \* feature_list.json: [exists, text]
    workspace,      \* directory entries of workspace/
    repo_root,      \* where the git work tree is rooted: "none", "workspace", "project"
    commits,        \* git history, oldest first
    dirty,          \* the work tree has changes `git add -A` would stage
    clock,          \* datetime.now()
    pc,             \* per process: the statement of main.py it is at
    args,           \* per process: the parsed command line
    user_instruction, \* per process: coding_session's argument
    bearings,       \* per process: the dict get_bearings returned
    features,       \* per process: coding_session's local `features`
    response,       \* per process: what call_minimax returned
    prompt,         \* per process: the prompts call_minimax was given [system, user]
    up,             \* per process: update_progress's locals [at, progress, existing, found]
    trace,          \* per process: the calls the current session has made, in order
    start,          \* per process: the durable state when the current session began
    commit_code,    \* per process: exit code of the session's git commit, -1 before it
    raised,         \* per process: the exception that ended the session, "" if none
    outcomes,       \* the sessions that have ended, in order: [kind, end]
    log0,           \* the progress log before the first session
    invocations     \* per process: invocations of main() so far

vars == <<nproc, progress_file, feature_file, workspace, repo_root, commits, dirty,
          clock, pc, args, user_instruction, bearings, features, response, prompt,
          up, trace, start, commit_code, raised, outcomes, log0, invocations>>

(***************************************************************************)
(* Bounds                                                                  *)
(***************************************************************************)
MaxInvocations == 2
MaxConcurrentInvocations == 1

Procs == 1 .. nproc

\* invocations of main() each process makes
InvocationLimit == IF nproc = 1 THEN MaxInvocations ELSE MaxConcurrentInvocations

(***************************************************************************)
(* Text helpers.  A text file is held as the sequence of its lines, each   *)
(* terminated by "\n"; the empty sequence is the empty string.             *)
(***************************************************************************)
None == "<None>"

RECURSIVE DropLeadingBlank(_)
DropLeadingBlank(ls) ==
    IF ls # <<>> /\ Head(ls) = "" THEN DropLeadingBlank(Tail(ls)) ELSE ls

RECURSIVE DropTrailingBlank(_)
DropTrailingBlank(ls) ==
    IF ls # <<>> /\ ls[Len(ls)] = ""
    THEN DropTrailingBlank(SubSeq(ls, 1, Len(ls) - 1))
    ELSE ls

\* text.strip().split('\n'), on lines free of leading and trailing blanks
StripSplit(ls) ==
    LET s == DropTrailingBlank(DropLeadingBlank(ls))
    IN  IF s = <<>> THEN <<"">> ELSE s

\* s[-n:]
LastN(s, n) == IF Len(s) <= n THEN s ELSE SubSeq(s, Len(s) - n + 1, Len(s))

\* s[:n]
FirstN(s, n) == IF Len(s) <= n THEN s ELSE SubSeq(s, 1, n)

Reverse(s) == [i \in 1 .. Len(s) |-> s[Len(s) + 1 - i]]

\* f"[{timestamp}] {message}\n", without the terminator
FormatProgress(timestamp, message) == "[" \o ToString(timestamp) \o "] " \o message

(***************************************************************************)
(* Messages and prompts of the two sessions                                *)
(***************************************************************************)
MsgInitStart == "start initializing project"
MsgInitDone == "project initialization done"
MsgCodingDone == "coding session done"
CommitInit == "Initial commit: project setup"
CommitCoding == "Update: progress from coding session"

Messages == {MsgInitStart, MsgInitDone, MsgCodingDone}

(***************************************************************************)
(* The feature ledger: file texts and json.loads on them                   *)
(***************************************************************************)
Rec(d, p) == [category |-> "functional", description |-> d, steps |-> <<"run " \o d>>,
              passes |-> p]

TxtNotJson == "not json"
TxtInt == "42"
TxtNull == "null"
TxtStr == "\"ab\""
TxtEmptyDict == "{}"
TxtDict == "{\"features\": []}"
TxtIntList == "[1]"
TxtEmptyList == "[]"
TxtNoSchema == "[{\"passes\": true}]"
TxtTodo == "[{\"category\":\"functional\",\"description\":\"add item\",\"steps\":[\"run add item\"],\"passes\":false}]"
TxtMixed == "[{\"category\":\"functional\",\"description\":\"add item\",\"steps\":[\"run add item\"],\"passes\":true},{\"category\":\"functional\",\"description\":\"list items\",\"steps\":[\"run list items\"],\"passes\":false},{\"category\":\"functional\",\"description\":\"remove item\",\"steps\":[\"run remove item\"],\"passes\":true}]"

\* the Python value json.loads returns, or the exception it raises
json_loads(text) ==
    CASE text = TxtInt       -> [exc |-> "", t |-> "int", v |-> <<>>]
      [] text = TxtNull      -> [exc |-> "", t |-> "NoneType", v |-> <<>>]
      [] text = TxtStr       -> [exc |-> "", t |-> "str", v |-> <<[t |-> "str"], [t |-> "str"]>>]
      [] text = TxtEmptyDict -> [exc |-> "", t |-> "dict", v |-> <<>>]
      [] text = TxtDict      -> [exc |-> "", t |-> "dict", v |-> <<[t |-> "str"]>>]
      [] text = TxtIntList   -> [exc |-> "", t |-> "list", v |-> <<[t |-> "int"]>>]
      [] text = TxtEmptyList -> [exc |-> "", t |-> "list", v |-> <<>>]
      [] text = TxtNoSchema  -> [exc |-> "", t |-> "list",
                                 v |-> <<[t |-> "dict", d |-> [passes |-> TRUE]]>>]
      [] text = TxtTodo      -> [exc |-> "", t |-> "list",
                                 v |-> <<[t |-> "dict", d |-> Rec("add item", FALSE)]>>]
      [] text = TxtMixed     -> [exc |-> "", t |-> "list",
                                 v |-> <<[t |-> "dict", d |-> Rec("add item", TRUE)],
                                         [t |-> "dict", d |-> Rec("list items", FALSE)],
                                         [t |-> "dict", d |-> Rec("remove item", TRUE)]>>]
      [] OTHER               -> [exc |-> "JSONDecodeError", t |-> "", v |-> <<>>]

LedgerTexts == {"", TxtNotJson, TxtInt, TxtNull, TxtStr, TxtEmptyDict, TxtDict, TxtIntList,
                TxtEmptyList, TxtNoSchema, TxtTodo, TxtMixed}

\* the texts that are a list of objects with category, description, steps, passes
SchemaFields == {"category", "description", "steps", "passes"}
ParsesAsSchema(text) ==
    LET j == json_loads(text)
    IN  /\ j.exc = ""
        /\ j.t = "list"
        /\ \A i \in 1 .. Len(j.v) : j.v[i].t = "dict" /\ DOMAIN j.v[i].d = SchemaFields

(***************************************************************************)
(* The workspace directory and the git work tree                           *)
(***************************************************************************)
EntTodo == [name |-> "todo.py", is_file |-> TRUE]
EntIgnore == [name |-> ".gitignore", is_file |-> TRUE]
EntSrc == [name |-> "src", is_file |-> FALSE]
EntGit == [name |-> ".git", is_file |-> FALSE]

\* f.name.startswith('.')
startswith_dot(name) == name \in {".gitignore", ".git"}

Commit(i, message) == [hash |-> "c" \o ToString(i), message |-> message]

\* a history of n earlier commits
History(n) == [i \in 1 .. n |-> Commit(i, IF i = 1 THEN CommitInit ELSE CommitCoding)]

\* run_shell("git log --oneline -20"): exit code and the lines of stdout
git_log(rr, cs) ==
    IF rr = "none" \/ cs = <<>>
    THEN [code |-> 128, stdout |-> <<>>]
    ELSE [code |-> 0,
          stdout |-> FirstN(Reverse([i \in 1 .. Len(cs) |->
                                        cs[i].hash \o " " \o cs[i].message]), 20)]

\* run_shell("git add -A && git commit -m '...'"): exit code
git_commit_code(rr, d) == IF rr # "none" /\ d THEN 0 ELSE 1

(***************************************************************************)
(* get_bearings                                                            *)
(***************************************************************************)
\* read_file on feature_list.json: the text, or None when the file does not exist
read_file(f) == IF f.exists THEN f.text ELSE None

\* d.get(k, default)
dict_get(d, k, default) == IF k \in DOMAIN d THEN d[k] ELSE default

\* [f for f in feature_data if f.get("passes", False)]: the exception it raises, if any
completed_exc(j) ==
    IF j.t \notin {"list", "dict", "str"} THEN "TypeError"
    ELSE IF \E i \in 1 .. Len(j.v) : j.v[i].t # "dict" THEN "AttributeError"
    ELSE ""

\* ... and the list it builds otherwise
completed(j) ==
    LET dicts == [i \in 1 .. Len(j.v) |-> j.v[i].d]
    IN  SelectSeq(dicts, LAMBDA f : dict_get(f, "passes", FALSE))

\* get_bearings that stamps the snapshot with the time it was taken
GetBearingsStamped(ws, rr, cs, pf, ff) ==
    LET files == {e.name : e \in {x \in ws : x.is_file /\ ~startswith_dot(x.name)}}
        log == git_log(rr, cs)
        status2 == [directory |-> "workspace",
                    files |-> files,
                    git_log |-> IF log.code = 0 THEN FirstN(StripSplit(log.stdout), 10)
                                ELSE <<>>,
                    features_completed |-> <<>>,
                    current_work |-> ToString(clock)]
        status3 == IF pf.exists /\ pf.lines # <<>>
                   THEN status2 @@ [progress_history |-> LastN(StripSplit(pf.lines), 5)]
                   ELSE status2
        truthy == ff.exists /\ ff.text # ""
        j == json_loads(ff.text)
    IN  IF ~truthy \/ j.exc = "JSONDecodeError"
        THEN [exc |-> "", status |-> status3]
        ELSE IF completed_exc(j) # ""
        THEN [exc |-> completed_exc(j), status |-> status3]
        ELSE [exc |-> "", status |-> [status3 EXCEPT !.features_completed = completed(j)]]

\* the dict get_bearings returns from the given durable state, or the exception
\* that leaves it
GetBearings(ws, rr, cs, pf, ff) ==
    LET status0 == [directory |-> "workspace",
                    files |-> {},
                    git_log |-> <<>>,
                    features_completed |-> <<>>,
                    current_work |-> None]
        status1 == [status0 EXCEPT !.files =
                       {e.name : e \in {x \in ws : x.is_file /\ ~startswith_dot(x.name)}}]
        log == git_log(rr, cs)
        status2 == IF log.code = 0
                   THEN [status1 EXCEPT !.git_log = FirstN(StripSplit(log.stdout), 10)]
                   ELSE status1
        status3 == IF pf.exists /\ pf.lines # <<>>
                   THEN status2 @@ [progress_history |-> LastN(StripSplit(pf.lines), 5)]
                   ELSE status2
        truthy == ff.exists /\ ff.text # ""
        j == json_loads(ff.text)
    IN  IF ~truthy \/ j.exc = "JSONDecodeError"
        THEN [exc |-> "", status |-> status3]
        ELSE IF completed_exc(j) # ""
        THEN [exc |-> completed_exc(j), status |-> status3]
        ELSE [exc |-> "", status |-> [status3 EXCEPT !.features_completed = completed(j)]]

(***************************************************************************)
(* Statements of the two sessions                                          *)
(***************************************************************************)
I_LogStart == "initialize_project:190"
I_Bearings == "initialize_project:193"
I_Call == "initialize_project:220"
I_Save == "initialize_project:223"
I_Commit == "initialize_project:226"
I_LogDone == "initialize_project:227"
C_Bearings == "coding_session:243"
C_Read == "coding_session:253"
C_Call == "coding_session:274"
C_Save == "coding_session:282"
C_Commit == "coding_session:285"
C_Log == "coding_session:286"

InitLabels == {I_LogStart, I_Bearings, I_Call, I_Save, I_Commit, I_LogDone}
CodingLabels == {C_Bearings, C_Read, C_Call, C_Save, C_Commit, C_Log}

\* the statement after each one; "done" is the return of the session
NextLabel(l) ==
    CASE l = I_LogStart -> I_Bearings
      [] l = I_Bearings -> I_Call
      [] l = I_Call     -> I_Save
      [] l = I_Save     -> I_Commit
      [] l = I_Commit   -> I_LogDone
      [] l = I_LogDone  -> "done"
      [] l = C_Bearings -> C_Read
      [] l = C_Read     -> C_Call
      [] l = C_Call     -> C_Save
      [] l = C_Save     -> C_Commit
      [] l = C_Commit   -> C_Log
      [] l = C_Log      -> "done"

\* the message each update_progress call passes
MessageAt(l) ==
    CASE l = I_LogStart -> MsgInitStart
      [] l = I_LogDone  -> MsgInitDone
      [] l = C_Log      -> MsgCodingDone

Kind(p) == start[p].kind

Active(p) == pc[p] \in InitLabels \cup CodingLabels

NoBearings == [directory |-> None]
NoUp == [at |-> "enter", progress |-> "", found |-> FALSE, existing |-> <<>>]

\* `if x:` on an optional string argument
NoPrompt == [system |-> None, user |-> None]

Truthy(x) == x # None /\ x # ""

(***************************************************************************)
(* Initial states                                                          *)
(***************************************************************************)

\* the directive of a coding session without instruction (lines 268-271)
DefaultDirective == "select the highest-priority unfinished feature of feature_list.json"

\* the system and user prompts each session builds for call_minimax; of the user
\* prompt, the part that depends on the command line
Prompts(p) ==
    IF pc[p] = I_Call
    THEN [system |-> "system_prompt_init", user |-> "task: " \o args[p].init]
    ELSE [system |-> "system_prompt_coding",
          user |-> IF Truthy(user_instruction[p])
                   THEN "instruction: " \o user_instruction[p]
                   ELSE DefaultDirective]

PriorLog(n) == [i \in 1 .. n |-> FormatProgress(i, MsgCodingDone)]

ProgressInits == {[exists |-> FALSE, lines |-> <<>>],
                  [exists |-> TRUE, lines |-> <<>>],
                  [exists |-> TRUE, lines |-> PriorLog(1)],
                  [exists |-> TRUE, lines |-> PriorLog(6)]}

LedgerInits == {[exists |-> FALSE, text |-> ""]}
               \cup {[exists |-> TRUE, text |-> t] : t \in LedgerTexts}

WorkspaceInits == {{}, {EntTodo, EntIgnore, EntSrc, EntGit}}

RepoInits == {[root |-> "none", commits |-> <<>>, dirty |-> FALSE]}
             \cup {[root |-> r, commits |-> History(n), dirty |-> d] :
                      r \in {"workspace", "project"}, n \in {0, 1, 12}, d \in BOOLEAN}

InitWith(n) ==
    /\ nproc = n
    /\ progress_file \in ProgressInits
    /\ feature_file \in LedgerInits
    /\ workspace \in WorkspaceInits
    /\ \E r \in RepoInits :
          /\ repo_root = r.root
          /\ commits = r.commits
          /\ dirty = r.dirty
    /\ clock = Len(progress_file.lines) + 1
    /\ pc = [p \in 1 .. n |-> "idle"]
    /\ args = [p \in 1 .. n |-> [init |-> None, code |-> None]]
    /\ user_instruction = [p \in 1 .. n |-> None]
    /\ bearings = [p \in 1 .. n |-> NoBearings]
    /\ features = [p \in 1 .. n |-> None]
    /\ response = [p \in 1 .. n |-> None]
    /\ prompt = [p \in 1 .. n |-> NoPrompt]
    /\ up = [p \in 1 .. n |-> NoUp]
    /\ trace = [p \in 1 .. n |-> <<>>]
    /\ start = [p \in 1 .. n |-> [kind |-> "", log |-> progress_file,
                                   commits |-> commits, ledger |-> feature_file]]
    /\ commit_code = [p \in 1 .. n |-> -1]
    /\ raised = [p \in 1 .. n |-> ""]
    /\ outcomes = <<>>
    /\ log0 = progress_file
    /\ invocations = [p \in 1 .. n |-> 0]

Init == InitWith(1)

(***************************************************************************)
(* main: parse the command line and enter one of the two sessions          *)
(***************************************************************************)
ArgValues == {[init |-> None, code |-> None],
              [init |-> "build a CLI todo app", code |-> None],
              [init |-> None, code |-> "fix the tests"],
              [init |-> "build a CLI todo app", code |-> "fix the tests"],
              [init |-> "", code |-> ""]}

\* main that tests args.code before args.init
main_code_first(p) ==
    /\ pc[p] \in {"idle", "done", "failed"}
    /\ invocations[p] < InvocationLimit
    /\ \E a \in ArgValues :
          /\ args' = [args EXCEPT ![p] = a]
          /\ IF Truthy(a.init) /\ ~Truthy(a.code)
             THEN /\ pc' = [pc EXCEPT ![p] = I_LogStart]
                  /\ user_instruction' = [user_instruction EXCEPT ![p] = None]
                  /\ start' = [start EXCEPT ![p] = [kind |-> "init", log |-> progress_file,
                                                    commits |-> commits,
                                                    ledger |-> feature_file]]
             ELSE /\ pc' = [pc EXCEPT ![p] = C_Bearings]
                  /\ user_instruction' = [user_instruction EXCEPT ![p] = a.code]
                  /\ start' = [start EXCEPT ![p] = [kind |-> "coding", log |-> progress_file,
                                                    commits |-> commits,
                                                    ledger |-> feature_file]]
    /\ invocations' = [invocations EXCEPT ![p] = @ + 1]
    /\ bearings' = [bearings EXCEPT ![p] = NoBearings]
    /\ features' = [features EXCEPT ![p] = None]
    /\ response' = [response EXCEPT ![p] = None]
    /\ prompt' = [prompt EXCEPT ![p] = NoPrompt]
    /\ up' = [up EXCEPT ![p] = NoUp]
    /\ trace' = [trace EXCEPT ![p] = <<>>]
    /\ commit_code' = [commit_code EXCEPT ![p] = -1]
    /\ raised' = [raised EXCEPT ![p] = ""]
    /\ UNCHANGED <<nproc, progress_file, feature_file, workspace, repo_root, commits,
                   dirty, clock, outcomes, log0>>

main(p) ==
    /\ pc[p] \in {"idle", "done", "failed"}
    /\ invocations[p] < InvocationLimit
    /\ \E a \in ArgValues :
          /\ args' = [args EXCEPT ![p] = a]
          /\ IF Truthy(a.init)
             THEN /\ pc' = [pc EXCEPT ![p] = I_LogStart]
                  /\ user_instruction' = [user_instruction EXCEPT ![p] = None]
                  /\ start' = [start EXCEPT ![p] = [kind |-> "init", log |-> progress_file,
                                                    commits |-> commits,
                                                    ledger |-> feature_file]]
             ELSE /\ pc' = [pc EXCEPT ![p] = C_Bearings]
                  /\ user_instruction' = [user_instruction EXCEPT ![p] = a.code]
                  /\ start' = [start EXCEPT ![p] = [kind |-> "coding", log |-> progress_file,
                                                    commits |-> commits,
                                                    ledger |-> feature_file]]
    /\ invocations' = [invocations EXCEPT ![p] = @ + 1]
    /\ bearings' = [bearings EXCEPT ![p] = NoBearings]
    /\ features' = [features EXCEPT ![p] = None]
    /\ response' = [response EXCEPT ![p] = None]
    /\ prompt' = [prompt EXCEPT ![p] = NoPrompt]
    /\ up' = [up EXCEPT ![p] = NoUp]
    /\ trace' = [trace EXCEPT ![p] = <<>>]
    /\ commit_code' = [commit_code EXCEPT ![p] = -1]
    /\ raised' = [raised EXCEPT ![p] = ""]
    /\ UNCHANGED <<nproc, progress_file, feature_file, workspace, repo_root, commits,
                   dirty, clock, outcomes, log0>>

(***************************************************************************)
(* update_progress: the timestamp and the read of the existing text, then  *)
(* the write of existing + progress                                        *)
(***************************************************************************)
update_progress_read(p) ==
    /\ pc[p] \in {I_LogStart, I_LogDone, C_Log}
    /\ up[p].at = "enter"
    /\ up' = [up EXCEPT ![p] = [at |-> "write",
                                progress |-> FormatProgress(clock, MessageAt(pc[p])),
                                found |-> progress_file.exists,
                                existing |-> IF progress_file.exists
                                             THEN progress_file.lines ELSE <<>>]]
    /\ clock' = clock + 1
    /\ UNCHANGED <<nproc, prompt, progress_file, feature_file, workspace, repo_root, commits,
                   dirty, pc, args, user_instruction, bearings, features, response,
                   trace, start, commit_code, raised, outcomes, log0, invocations>>

\* the text update_progress writes
ProgressText(u) == IF u.found THEN Append(u.existing, u.progress) ELSE <<u.progress>>

update_progress_write(p) ==
    /\ pc[p] \in {I_LogStart, I_LogDone, C_Log}
    /\ up[p].at = "write"
    /\ progress_file' = [exists |-> TRUE, lines |-> ProgressText(up[p])]
    /\ dirty' = (dirty \/ repo_root = "project")
    /\ up' = [up EXCEPT ![p] = NoUp]
    /\ trace' = [trace EXCEPT ![p] = Append(@, "update_progress")]
    /\ pc' = [pc EXCEPT ![p] = NextLabel(pc[p])]
    /\ outcomes' = IF NextLabel(pc[p]) = "done"
                   THEN Append(outcomes, [proc |-> p, kind |-> Kind(p), end |-> "LOGGED"])
                   ELSE outcomes
    /\ UNCHANGED <<nproc, prompt, feature_file, workspace, repo_root, commits, clock, args,
                   user_instruction, bearings, features, response, start, commit_code,
                   raised, log0, invocations>>

(***************************************************************************)
(* The steps of a session                                                  *)
(***************************************************************************)
\* an uncaught exception leaves main
Raise(p, exc) ==
    /\ pc' = [pc EXCEPT ![p] = "failed"]
    /\ raised' = [raised EXCEPT ![p] = exc]
    /\ outcomes' = Append(outcomes, [proc |-> p, kind |-> Kind(p), end |-> exc])

\* get_bearings that opens claude-progress.txt for appending, which creates it
get_bearings_touch(p) ==
    /\ pc[p] \in {I_Bearings, C_Bearings}
    /\ trace' = [trace EXCEPT ![p] = Append(@, "get_bearings")]
    /\ progress_file' = [exists |-> TRUE, lines |-> progress_file.lines]
    /\ LET r == GetBearings(workspace, repo_root, commits, progress_file, feature_file)
       IN  IF r.exc # ""
           THEN /\ Raise(p, r.exc)
                /\ UNCHANGED bearings
           ELSE /\ bearings' = [bearings EXCEPT ![p] = r.status]
                /\ pc' = [pc EXCEPT ![p] = NextLabel(pc[p])]
                /\ UNCHANGED <<raised, outcomes>>
    /\ UNCHANGED <<nproc, prompt, feature_file, workspace, repo_root, commits,
                   dirty, clock, args, user_instruction, features, response, up, start,
                   commit_code, log0, invocations>>

get_bearings(p) ==
    /\ pc[p] \in {I_Bearings, C_Bearings}
    /\ trace' = [trace EXCEPT ![p] = Append(@, "get_bearings")]
    /\ LET r == GetBearings(workspace, repo_root, commits, progress_file, feature_file)
       IN  IF r.exc # ""
           THEN /\ Raise(p, r.exc)
                /\ UNCHANGED bearings
           ELSE /\ bearings' = [bearings EXCEPT ![p] = r.status]
                /\ pc' = [pc EXCEPT ![p] = NextLabel(pc[p])]
                /\ UNCHANGED <<raised, outcomes>>
    /\ UNCHANGED <<nproc, prompt, progress_file, feature_file, workspace, repo_root, commits,
                   dirty, clock, args, user_instruction, features, response, up, start,
                   commit_code, log0, invocations>>

read_features(p) ==
    /\ pc[p] = C_Read
    /\ features' = [features EXCEPT ![p] = read_file(feature_file)]
    /\ pc' = [pc EXCEPT ![p] = NextLabel(pc[p])]
    /\ UNCHANGED <<nproc, prompt, progress_file, feature_file, workspace, repo_root, commits,
                   dirty, clock, args, user_instruction, bearings, response, up, trace,
                   start, commit_code, raised, outcomes, log0, invocations>>

\* call_minimax in a session that undoes its log entries when the request raises
call_minimax_rollback(p) ==
    /\ pc[p] \in {I_Call, C_Call}
    /\ trace' = [trace EXCEPT ![p] = Append(@, "call_minimax")]
    /\ prompt' = [prompt EXCEPT ![p] = Prompts(p)]
    /\ \/ /\ response' = [response EXCEPT ![p] = "content"]
          /\ pc' = [pc EXCEPT ![p] = NextLabel(pc[p])]
          /\ UNCHANGED <<raised, outcomes, progress_file>>
       \/ /\ Raise(p, "APIError")
          /\ progress_file' = start[p].log
          /\ UNCHANGED response
    /\ UNCHANGED <<nproc, feature_file, workspace, repo_root, commits,
                   dirty, clock, args, user_instruction, bearings, features, up, start,
                   commit_code, log0, invocations>>

\* the model provider answers, or the request raises
call_minimax(p) ==
    /\ pc[p] \in {I_Call, C_Call}
    /\ trace' = [trace EXCEPT ![p] = Append(@, "call_minimax")]
    /\ prompt' = [prompt EXCEPT ![p] = Prompts(p)]
    /\ \/ /\ response' = [response EXCEPT ![p] = "content"]
          /\ pc' = [pc EXCEPT ![p] = NextLabel(pc[p])]
          /\ UNCHANGED <<raised, outcomes>>
       \/ /\ Raise(p, "APIError")
          /\ UNCHANGED response
    /\ UNCHANGED <<nproc, progress_file, feature_file, workspace, repo_root, commits,
                   dirty, clock, args, user_instruction, bearings, features, up, start,
                   commit_code, log0, invocations>>

\* save_agent_output that writes the ledger of the response, in which the agent
\* has marked two features complete
save_agent_output_all_done(p) ==
    /\ pc[p] \in {I_Save, C_Save}
    /\ trace' = [trace EXCEPT ![p] = Append(@, "save_agent_output")]
    /\ feature_file' = [exists |-> TRUE, text |-> TxtMixed]
    /\ pc' = [pc EXCEPT ![p] = NextLabel(pc[p])]
    /\ UNCHANGED <<nproc, prompt, progress_file, workspace, repo_root, commits,
                   dirty, clock, args, user_instruction, bearings, features, response,
                   up, start, commit_code, raised, outcomes, log0, invocations>>

\* save_agent_output that replaces the ledger by the one record the response names
save_agent_output_overwrite(p) ==
    /\ pc[p] \in {I_Save, C_Save}
    /\ trace' = [trace EXCEPT ![p] = Append(@, "save_agent_output")]
    /\ feature_file' = [exists |-> TRUE, text |-> TxtTodo]
    /\ pc' = [pc EXCEPT ![p] = NextLabel(pc[p])]
    /\ UNCHANGED <<nproc, prompt, progress_file, workspace, repo_root, commits,
                   dirty, clock, args, user_instruction, bearings, features, response,
                   up, start, commit_code, raised, outcomes, log0, invocations>>

\* the body of save_agent_output is `pass`
save_agent_output(p) ==
    /\ pc[p] \in {I_Save, C_Save}
    /\ trace' = [trace EXCEPT ![p] = Append(@, "save_agent_output")]
    /\ pc' = [pc EXCEPT ![p] = NextLabel(pc[p])]
    /\ UNCHANGED <<nproc, prompt, progress_file, feature_file, workspace, repo_root, commits,
                   dirty, clock, args, user_instruction, bearings, features, response,
                   up, start, commit_code, raised, outcomes, log0, invocations>>

\* git_commit run with check=True: a non-zero exit raises CalledProcessError
git_commit_checked(p) ==
    /\ pc[p] \in {I_Commit, C_Commit}
    /\ trace' = [trace EXCEPT ![p] = Append(@, "git_commit")]
    /\ LET code == git_commit_code(repo_root, dirty)
           message == IF pc[p] = I_Commit THEN CommitInit ELSE CommitCoding
       IN  /\ commit_code' = [commit_code EXCEPT ![p] = code]
           /\ IF code = 0
              THEN /\ commits' = Append(commits, Commit(Len(commits) + 1, message))
                   /\ dirty' = FALSE
                   /\ pc' = [pc EXCEPT ![p] = NextLabel(pc[p])]
                   /\ UNCHANGED <<raised, outcomes>>
              ELSE /\ Raise(p, "CalledProcessError")
                   /\ UNCHANGED <<commits, dirty>>
    /\ UNCHANGED <<nproc, prompt, progress_file, feature_file, workspace, repo_root, clock, args,
                   user_instruction, bearings, features, response, up, start,
                   log0, invocations>>

\* git_commit returns code == 0 and both sessions drop the result
git_commit(p) ==
    /\ pc[p] \in {I_Commit, C_Commit}
    /\ trace' = [trace EXCEPT ![p] = Append(@, "git_commit")]
    /\ LET code == git_commit_code(repo_root, dirty)
           message == IF pc[p] = I_Commit THEN CommitInit ELSE CommitCoding
       IN  /\ commit_code' = [commit_code EXCEPT ![p] = code]
           /\ IF code = 0
              THEN /\ commits' = Append(commits, Commit(Len(commits) + 1, message))
                   /\ dirty' = FALSE
              ELSE UNCHANGED <<commits, dirty>>
    /\ pc' = [pc EXCEPT ![p] = NextLabel(pc[p])]
    /\ UNCHANGED <<nproc, prompt, progress_file, feature_file, workspace, repo_root, clock, args,
                   user_instruction, bearings, features, response, up, start, raised,
                   outcomes, log0, invocations>>

Next ==
    \/ \E p \in Procs : main(p)
    \/ \E p \in Procs : update_progress_read(p)
    \/ \E p \in Procs : update_progress_write(p)
    \/ \E p \in Procs : get_bearings(p)
    \/ \E p \in Procs : read_features(p)
    \/ \E p \in Procs : call_minimax(p)
    \/ \E p \in Procs : save_agent_output(p)
    \/ \E p \in Procs : git_commit(p)

Spec == Init /\ [][Next]_vars

\* two processes started on the same project
InitConcurrent ==
    /\ InitWith(2)
    /\ progress_file.lines \in {<<>>, PriorLog(1)}
    /\ feature_file \in {[exists |-> FALSE, text |-> ""], [exists |-> TRUE, text |-> TxtTodo]}
    /\ workspace # {}
    /\ repo_root = "project"
    /\ Len(commits) = 1
    /\ ~dirty

SpecConcurrent == InitConcurrent /\ [][Next]_vars

TypeOK ==
    /\ nproc \in {1, 2}
    /\ progress_file.exists \in BOOLEAN
    /\ \A p \in Procs : pc[p] \in {"idle", "done", "failed"} \cup InitLabels \cup CodingLabels

(***************************************************************************)
(* Vocabulary of the properties                                            *)
(***************************************************************************)
Last(s) == s[Len(s)]

IsPrefix(s, t) == Len(s) <= Len(t) /\ SubSeq(t, 1, Len(s)) = s

Count(s, x) == Cardinality({i \in 1 .. Len(s) : s[i] = x})

\* the lines of the log that follow its first n lines
After(n) == SubSeq(progress_file.lines, n + 1, Len(progress_file.lines))

\* a line of the form [<timestamp>] <message>, for the given message
IsEntry(line, message) == \E t \in 1 .. clock : line = FormatProgress(t, message)

\* the order of steps of the session protocol
ProtocolSteps == <<"get_bearings", "call_minimax", "save_agent_output", "git_commit",
                   "update_progress">>

\* the calls each session makes, from its code
StepsOf(kind) == IF kind = "init" THEN <<"update_progress">> \o ProtocolSteps
                 ELSE ProtocolSteps

\* the message of the entry a session of the kind ends with
FinalMessage(kind) == IF kind = "init" THEN MsgInitDone ELSE MsgCodingDone

\* the session of p has just ended by the exception exc
Failed(p) == pc[p] = "failed"

Completed(p) == pc[p] = "done"

EmptyProject == ~progress_file.exists /\ ~feature_file.exists /\ commits = <<>>

\* get_bearings is the last call p made, and nothing was written since
JustGotBearings(p) == trace[p] # <<>> /\ Last(trace[p]) = "get_bearings"

(***************************************************************************)
(* C1: in a session of either kind, when call_minimax raises, the progress  *)
(* log at the end of the session is what it was at the start of the        *)
(* session, and the session attempted and created no commit.                *)
(***************************************************************************)
C1_ModelErrorLeavesNoWrites ==
    \A p \in Procs :
        (Failed(p) /\ raised[p] = "APIError") =>
            /\ progress_file = start[p].log
            /\ Count(trace[p], "git_commit") = 0
            /\ commits = start[p].commits

(***************************************************************************)
(* C2: after N sessions run one after another to completion, the log is    *)
(* the log before the first of them followed by exactly N new entries      *)
(* [<timestamp>] <message>, one per session in session order.               *)
(***************************************************************************)
C2_OneEntryPerSession ==
    (/\ \A p \in Procs : ~Active(p)
     /\ \A i \in 1 .. Len(outcomes) : outcomes[i].end = "LOGGED")
    => /\ IsPrefix(log0.lines, progress_file.lines)
       /\ Len(After(Len(log0.lines))) = Len(outcomes)
       /\ \A i \in 1 .. Len(outcomes) :
             i <= Len(After(Len(log0.lines))) =>
                IsEntry(After(Len(log0.lines))[i], FinalMessage(outcomes[i].kind))

(***************************************************************************)
(* C3: a session makes its calls in the order get_bearings, call_minimax,  *)
(* save_agent_output, git_commit, update_progress: get_bearings is its     *)
(* first call, nothing is written to the log or to git before it, and a    *)
(* completed session has made each call exactly once.                      *)
(***************************************************************************)
C3_ProtocolOrder ==
    \A p \in Procs :
        /\ IsPrefix(trace[p], ProtocolSteps)
        /\ (Count(trace[p], "get_bearings") = 0 /\ pc[p] # "idle") =>
              (progress_file = start[p].log /\ commits = start[p].commits)
        /\ Completed(p) => trace[p] = ProtocolSteps

(***************************************************************************)
(* C4: two sessions started concurrently on one workspace are never both   *)
(* active between the start of the first step and the end of the final     *)
(* log append.                                                             *)
(***************************************************************************)
C4_OneActiveSession ==
    \A p, q \in Procs : (p # q) => ~(Active(p) /\ Active(q))

(***************************************************************************)
(* C5: an initialization session completed on a fresh project, the model   *)
(* call having returned, leaves feature_list.json with at least one        *)
(* record, every record passes=false, one commit, and a log of at least    *)
(* one entry.                                                              *)
(***************************************************************************)
C5_FreshInitialization ==
    \A p \in Procs :
        (/\ Completed(p)
         /\ Kind(p) = "init"
         /\ ~start[p].log.exists
         /\ ~start[p].ledger.exists
         /\ start[p].commits = <<>>)
        => /\ feature_file.exists
           /\ ParsesAsSchema(feature_file.text)
           /\ Len(json_loads(feature_file.text).v) >= 1
           /\ \A i \in 1 .. Len(json_loads(feature_file.text).v) :
                 json_loads(feature_file.text).v[i].d.passes = FALSE
           /\ Len(commits) = 1
           /\ Len(progress_file.lines) >= 1

(***************************************************************************)
(* C6: a coding session without instruction override, completed on a       *)
(* project whose ledger has a record with passes=false, leaves the         *)
(* record's category, description and steps as they were, and exactly one  *)
(* new commit and exactly one new log entry.                               *)
(***************************************************************************)
HasIncomplete(f) ==
    /\ f.exists
    /\ ParsesAsSchema(f.text)
    /\ \E i \in 1 .. Len(json_loads(f.text).v) : ~json_loads(f.text).v[i].d.passes

\* the records of ledger f appear in ledger g, up to the passes flag
SameRecords(f, g) ==
    /\ g.exists
    /\ ParsesAsSchema(g.text)
    /\ LET a == json_loads(f.text).v
           b == json_loads(g.text).v
       IN  /\ Len(a) = Len(b)
           /\ \A i \in 1 .. Len(a) :
                 [a[i].d EXCEPT !.passes = FALSE] = [b[i].d EXCEPT !.passes = FALSE]

C6_CodingSessionOneCommitOneEntry ==
    \A p \in Procs :
        (/\ Completed(p)
         /\ Kind(p) = "coding"
         /\ ~Truthy(user_instruction[p])
         /\ HasIncomplete(start[p].ledger))
        => /\ SameRecords(start[p].ledger, feature_file)
           /\ Len(commits) = Len(start[p].commits) + 1
           /\ Len(progress_file.lines) = Len(start[p].log.lines) + 1

(***************************************************************************)
(* C7: when a step of a session raises, no later step of the session runs  *)
(* and no step is tried again, and the log entries and commits the         *)
(* session made before the failure are still there, unchanged.             *)
(***************************************************************************)
C7_FailureAbortsWithoutRollback ==
    \A p \in Procs :
        Failed(p) =>
            /\ trace[p] # <<>>
            /\ IsPrefix(trace[p], StepsOf(Kind(p)))
            /\ up[p].at = "enter"
            /\ IsPrefix(start[p].log.lines, progress_file.lines)
            /\ Len(progress_file.lines) =
                  Len(start[p].log.lines) + Count(trace[p], "update_progress")
            /\ (Count(trace[p], "update_progress") = 1) =>
                  (progress_file.exists /\ IsEntry(Last(progress_file.lines), MsgInitStart))
            /\ IsPrefix(start[p].commits, commits)
            /\ Len(commits) = Len(start[p].commits) + (IF commit_code[p] = 0 THEN 1 ELSE 0)

\* an initialization session whose model call raised after its first entry was written
C7_Witness ==
    \E p \in Procs :
        /\ Failed(p)
        /\ Kind(p) = "init"
        /\ raised[p] = "APIError"
        /\ Len(progress_file.lines) = Len(start[p].log.lines) + 1

(***************************************************************************)
(* C8: a session that gets past the commit step has attempted the commit   *)
(* exactly once, with or without changes to commit, and a commit that      *)
(* exits non-zero does not end the session: it goes on to append its log   *)
(* entry and returns normally.                                             *)
(***************************************************************************)
AfterCommit == {I_LogDone, C_Log, "done"}

C8_CommitFailureTolerated ==
    \A p \in Procs :
        /\ (pc[p] \in AfterCommit) =>
              (Count(trace[p], "git_commit") = 1 /\ commit_code[p] \in {0, 1})
        /\ (commit_code[p] = 1) => (pc[p] \in AfterCommit /\ raised[p] = "")
        /\ Completed(p) =>
              /\ progress_file.exists
              /\ Len(progress_file.lines) > Len(start[p].log.lines)
              /\ IsEntry(Last(progress_file.lines), FinalMessage(Kind(p)))

\* a session that returned normally although its commit exited non-zero
C8_Witness ==
    \E p \in Procs :
        /\ Completed(p)
        /\ commit_code[p] = 1
        /\ ~dirty
        /\ IsEntry(Last(progress_file.lines), FinalMessage(Kind(p)))

(***************************************************************************)
(* C9: get_bearings on an empty project (no log, no ledger, no commits)    *)
(* does not raise and returns files, git_log, progress_history and         *)
(* features_completed, each present and empty.                             *)
(***************************************************************************)
C9_EmptyProjectBearings ==
    \A p \in Procs :
        (JustGotBearings(p) /\ EmptyProject) =>
            /\ raised[p] = ""
            /\ {"files", "git_log", "progress_history", "features_completed"}
                  \subseteq DOMAIN bearings[p]
            /\ bearings[p].files = {}
            /\ bearings[p].git_log = <<>>
            /\ bearings[p].progress_history = <<>>
            /\ bearings[p].features_completed = <<>>

(***************************************************************************)
(* C10: whenever the ledger file does not parse as a list of objects with  *)
(* category, description, steps and passes, get_bearings does not raise    *)
(* and returns features_completed empty.                                   *)
(***************************************************************************)
C10_MalformedLedgerSwallowed ==
    \A p \in Procs :
        (JustGotBearings(p) /\ feature_file.exists /\ ~ParsesAsSchema(feature_file.text)) =>
            /\ raised[p] = ""
            /\ "features_completed" \in DOMAIN bearings[p]
            /\ bearings[p].features_completed = <<>>

(***************************************************************************)
(* C11: across one session of either kind, the number of ledger records    *)
(* with passes=true grows by at most 1.                                    *)
(***************************************************************************)
\* the records of ledger file f with a true passes flag
CountPasses(f) ==
    IF ~f.exists \/ json_loads(f.text).exc # "" \/ json_loads(f.text).t # "list"
    THEN 0
    ELSE LET v == json_loads(f.text).v
         IN  Cardinality({i \in 1 .. Len(v) :
                             v[i].t = "dict" /\ dict_get(v[i].d, "passes", FALSE)})

C11_AtMostOneCompletion ==
    \A p \in Procs :
        (pc[p] # "idle") => CountPasses(feature_file) <= CountPasses(start[p].ledger) + 1

\* a session that went through save_agent_output on a ledger with completed records
C11_Witness ==
    \E p \in Procs :
        /\ Completed(p)
        /\ Count(trace[p], "save_agent_output") = 1
        /\ CountPasses(start[p].ledger) = 2
        /\ CountPasses(feature_file) = 2

(***************************************************************************)
(* C12: no step of a session makes a ledger that parsed under the schema   *)
(* stop parsing or lose a record, and the ledger file is only ever         *)
(* replaced by a complete document that parses under the schema.           *)
(***************************************************************************)
\* every record of ledger f is in ledger g, whatever its passes flag
RecordsKept(f, g) ==
    LET a == json_loads(f.text).v
        b == json_loads(g.text).v
    IN  \A i \in 1 .. Len(a) :
           \E k \in 1 .. Len(b) :
              [a[i].d EXCEPT !.passes = FALSE] = [b[k].d EXCEPT !.passes = FALSE]

LedgerStep ==
    /\ (feature_file.exists /\ ParsesAsSchema(feature_file.text)) =>
          /\ feature_file'.exists
          /\ ParsesAsSchema(feature_file'.text)
          /\ RecordsKept(feature_file, feature_file')
    /\ (feature_file' # feature_file) =>
          (feature_file'.exists /\ ParsesAsSchema(feature_file'.text))

C12_LedgerPreserved == [][LedgerStep]_vars

\* two sessions completed on a ledger of three records, all still there
C12_Witness ==
    /\ Len(outcomes) = 2
    /\ \A i \in 1 .. 2 : outcomes[i].end = "LOGGED"
    /\ feature_file.exists
    /\ ParsesAsSchema(feature_file.text)
    /\ Len(json_loads(feature_file.text).v) = 3

(***************************************************************************)
(* C13: get_bearings called again, with no write to the workspace, the log, *)
(* the ledger or the git history since the first call, returns the same    *)
(* snapshot as the first call.                                             *)
(***************************************************************************)
\* the session of p holds a snapshot and has written nothing since it took it
NoWriteSinceBearings(p) ==
    /\ Active(p)
    /\ bearings[p] # NoBearings
    /\ commit_code[p] # 0
    /\ \E k \in 1 .. Len(trace[p]) :
          /\ trace[p][k] = "get_bearings"
          /\ \A i \in (k + 1) .. Len(trace[p]) : trace[p][i] # "update_progress"

BearingsStep(p) == trace'[p] = Append(trace[p], "get_bearings")

C14_BearingsNoSideEffect ==
    [][\A p \in Procs :
          BearingsStep(p) =>
             UNCHANGED <<progress_file, feature_file, workspace, repo_root, commits, dirty>>]_vars

\* get_bearings has just returned on a project with no progress log yet
C14_Witness ==
    \E p \in Procs :
        /\ JustGotBearings(p)
        /\ raised[p] = ""
        /\ ~progress_file.exists
        /\ bearings[p].files # {}

(***************************************************************************)
(* C15: in every project state, the snapshot get_bearings returns has      *)
(* git_log = the most recent commit summaries, newest first, at most 10;   *)
(* progress_history = the last min(5, number of log lines) lines of the    *)
(* progress log, in log order; features_completed = exactly the ledger     *)
(* records whose passes flag is true, in ledger order.                     *)
(***************************************************************************)
Min(a, b) == IF a <= b THEN a ELSE b

RecentCommits ==
    [i \in 1 .. Min(10, Len(commits)) |->
        commits[Len(commits) + 1 - i].hash \o " " \o commits[Len(commits) + 1 - i].message]

RecentProgress ==
    LET n == Len(progress_file.lines)
        m == Min(5, n)
    IN  [i \in 1 .. m |-> progress_file.lines[n - m + i]]

CompletedRecords ==
    LET j == json_loads(feature_file.text)
    IN  IF ~feature_file.exists \/ j.exc # "" \/ j.t # "list"
        THEN <<>>
        ELSE LET done == SelectSeq(j.v, LAMBDA x : /\ x.t = "dict"
                                                   /\ "passes" \in DOMAIN x.d
                                                   /\ x.d.passes)
             IN  [i \in 1 .. Len(done) |-> done[i].d]

C15_SnapshotContents ==
    \A p \in Procs :
        (JustGotBearings(p) /\ raised[p] = "") =>
            /\ bearings[p].git_log = RecentCommits
            /\ "progress_history" \in DOMAIN bearings[p]
            /\ bearings[p].progress_history = RecentProgress
            /\ bearings[p].features_completed = CompletedRecords

(***************************************************************************)
(* C16: the progress log is append-only in every reachable state, also     *)
(* when the update_progress calls of two sessions interleave: every step   *)
(* leaves the lines already in the log in place, so no entry once written  *)
(* is lost or overwritten.                                                 *)
(***************************************************************************)
C16_AppendOnly == [][IsPrefix(progress_file.lines, progress_file'.lines)]_vars

(***************************************************************************)
(* C17: each invocation of main runs exactly one session, never both       *)
(* kinds: an initialization session when --init is given; otherwise a      *)
(* coding session, carrying the --code instruction when one is given and   *)
(* the default directive when none is.                                     *)
(***************************************************************************)
\* the sessions process p has begun
SessionsOf(p) ==
    Cardinality({i \in 1 .. Len(outcomes) : outcomes[i].proc = p})
       + (IF Active(p) THEN 1 ELSE 0)

\* the invocation of p runs one session, of one kind
OneSession(p) ==
    /\ SessionsOf(p) = invocations[p]
    /\ Kind(p) \in {"init", "coding"}
    /\ Active(p) => pc[p] \in (IF Kind(p) = "init" THEN InitLabels ELSE CodingLabels)
    /\ IsPrefix(trace[p], StepsOf(Kind(p)))
    /\ (prompt[p] # NoPrompt) =>
          prompt[p].system = (IF Kind(p) = "init" THEN "system_prompt_init"
                              ELSE "system_prompt_coding")

\* the session the command line of p selects, `present` telling which values of
\* an option count as given
SelectedBy(p, present(_)) ==
    /\ present(args[p].init) => Kind(p) = "init"
    /\ ~present(args[p].init) => Kind(p) = "coding"
    /\ (~present(args[p].init) /\ present(args[p].code)) =>
          /\ user_instruction[p] = args[p].code
          /\ (prompt[p] # NoPrompt) => prompt[p].user = "instruction: " \o args[p].code
    /\ (~present(args[p].init) /\ ~present(args[p].code)) =>
          ((prompt[p] # NoPrompt) => prompt[p].user = DefaultDirective)

Given(x) == x # None

\* the claim as stated: an option is given when it is on the command line
C17_SessionSelection_AsStated ==
    \A p \in Procs : (pc[p] # "idle") => (OneSession(p) /\ SelectedBy(p, Given))

\* the claim with "given" read as: on the command line with a non-empty value
C17_SessionSelection ==
    \A p \in Procs : (pc[p] # "idle") => (OneSession(p) /\ SelectedBy(p, Truthy))

\* a completed session started with --init "" --code "": a default coding session
C17_Witness ==
    \E p \in Procs :
        /\ Completed(p)
        /\ args[p].init = ""
        /\ Kind(p) = "coding"
        /\ prompt[p].user = DefaultDirective

====
